---- MODULE Spec2Model ----
(***************************************************************************)
(* Event-registration REST service: the Events and Registrations tables,   *)
(* the five handlers of routes/events.js and the steps between their       *)
(* awaits, so that concurrent requests interleave at the database calls.   *)
(***************************************************************************)
EXTENDS Integers, FiniteSets, Sequences, TLC

\* ------------------------------------------------------------------ bounds
MaxCap == 2         \* largest capacity a request body carries
MaxDate == 2        \* distinct dates of the events a list query reads
MaxRegs == 2        \* registration rows the table may hold
MaxPage == 3        \* largest page and limit a list query carries
MaxListed == 2      \* events in the table a list query reads

Dates == 1..MaxDate
RegIds == 1..MaxRegs

\* the event identifiers requests name
EventIds == {1, 2}

\* the race scenario: two requests in flight at once, on one event identifier
RaceReqs == {1, 2}
RaceEvents == {1}

\* ------------------------------------------------------------------ users
Anon == "anon"
UserIds == {"admin1", "user1"}
Callers == UserIds \cup {Anon}

Role(u) == IF u = "admin1" THEN "ADMIN" ELSE "USER"

\* middleware auth: lets the request through when it carries a valid token
Authenticated(caller) == caller \in UserIds

\* middleware isAdmin: lets the request through when the user is an admin
IsAdmin(caller) == caller \in UserIds /\ Role(caller) = "ADMIN"

\* ------------------------------------------------------------------ state
VARIABLES events, users, regs, reqs, listRes

vars == <<events, users, regs, reqs, listRes>>

\* Registration.status: ENUM('PENDING','CONFIRMED','CANCELLED'), default PENDING
Statuses == {"PENDING", "CONFIRMED", "CANCELLED"}
DefaultStatusConfirmed == "CONFIRMED"
DefaultStatus == "PENDING"

\* request bodies: the fields a body may carry, each possibly absent; no
\* handler reads the date, so a body that carries one carries the same one
EmptyBody == [f \in {} |-> 0]
CapInputs == 0..MaxCap
BodyDates == {1}
Bodies ==
    {[capacity |-> c, date |-> d] : c \in CapInputs, d \in BodyDates}
    \cup {[capacity |-> c] : c \in CapInputs}
    \cup {[date |-> d] : d \in BodyDates}
    \cup {EmptyBody}

Has(b, f) == f \in DOMAIN b

\* Event model: capacity and date are allowNull: false
RequiredPresent(b) == Has(b, "capacity") /\ Has(b, "date")

\* an off-by-one minimum: capacity 0 passes
CapacityNonNegative(b) == Has(b, "capacity") => b.capacity >= 0

\* Event.capacity: validate { min: 1 }, run on the fields a save writes
CapacityValid(b) == Has(b, "capacity") => b.capacity >= 1

\* a count that ignores the status
CountAllRows(rs, id) == Cardinality({g \in rs : g.EventId = id})

\* Registration.count({ where: { EventId, status: 'CONFIRMED' } })
ConfirmedCount(rs, id) ==
    Cardinality({g \in rs : g.EventId = id /\ g.status = "CONFIRMED"})

\* a strict comparison: the Nth confirmed registration does not fill the event
IsFullStrict(count, capacity) == count > capacity

\* the admission gate of the register handler
IsFull(count, capacity) == count >= capacity

\* FOREIGN KEY (UserId) / (EventId): an insert must reference existing rows
ForeignKeysHold(userId, eventId) ==
    userId \in users /\ eventId \in DOMAIN events

\* a foreign key without the cascade
CascadeNone(rs, id) == rs

\* ON DELETE CASCADE from Events to Registrations
CascadeEvent(rs, id) == {g \in rs : g.EventId # id}

\* ON DELETE CASCADE from Users to Registrations
CascadeUser(rs, u) == {g \in rs : g.UserId # u}

\* a fresh UUIDV4 primary key for a registration row
FreshRegId == CHOOSE i \in RegIds : \A g \in regs : g.id # i

\* ------------------------------------------------------------------ requests
\* A request slot holds what the rest of its handler still reads: req.user.id
\* (register), req.params.id, the capacity of the event findByPk returned,
\* req.body (update); once answered, the status code and the error message.
NoUser == "none"

NoList == [code |-> 0]

Idle ==
    [op |-> "none", pc |-> "idle", user |-> NoUser, id |-> 0, capacity |-> 0,
     body |-> EmptyBody, code |-> 0, error |-> ""]

Free(r) == reqs[r].pc \in {"idle", "done"}

Done(op, id, code, error) ==
    [op |-> op, pc |-> "done", user |-> NoUser, id |-> id, capacity |-> 0,
     body |-> EmptyBody, code |-> code, error |-> error]

Step(op, pc, user, id, capacity, body) ==
    [op |-> op, pc |-> pc, user |-> user, id |-> id, capacity |-> capacity,
     body |-> body, code |-> 0, error |-> ""]

\* The tables as the service finds them when it starts: sequelize.sync() keeps
\* the rows already stored. One event of capacity c with k <= c registrations
\* whose status was set to CONFIRMED out of band (no handler writes a status).
Init ==
    /\ \E c \in 1..MaxCap : \E k \in 0..c :
         /\ k <= MaxRegs
         /\ events = [e \in {1} |-> [capacity |-> c, date |-> 1]]
         /\ regs = {[id |-> i, status |-> "CONFIRMED", UserId |-> "user1", EventId |-> 1]
                      : i \in 1..k}
    /\ users = UserIds
    /\ reqs = [r \in RaceReqs |-> Idle]
    /\ listRes = NoList

\* POST /api/events
Create(r, caller, id, body) ==
    /\ Free(r)
    /\ UNCHANGED <<users, regs, listRes>>
    /\ IF ~Authenticated(caller)
       THEN /\ reqs' = [reqs EXCEPT ![r] = Done("create", id, 401, "auth")]
            /\ UNCHANGED events
       ELSE IF ~(RequiredPresent(body) /\ CapacityValid(body))
       THEN /\ reqs' = [reqs EXCEPT ![r] = Done("create", id, 400, "validation")]
            /\ UNCHANGED events
       ELSE IF id \in DOMAIN events
       THEN /\ reqs' = [reqs EXCEPT ![r] = Done("create", id, 400, "unique")]
            /\ UNCHANGED events
       ELSE /\ events' = [e \in DOMAIN events \cup {id} |->
                            IF e = id THEN [capacity |-> body.capacity, date |-> body.date]
                            ELSE events[e]]
            /\ reqs' = [reqs EXCEPT ![r] = Done("create", id, 201, "")]

\* register without the null check: event.id throws on a missing event
RegFindUnchecked(r, caller, id) ==
    /\ Free(r)
    /\ UNCHANGED <<events, users, regs, listRes>>
    /\ IF ~Authenticated(caller)
       THEN reqs' = [reqs EXCEPT ![r] = Done("register", id, 401, "auth")]
       ELSE IF id \notin DOMAIN events
       THEN reqs' = [reqs EXCEPT ![r] = Done("register", id, 400, "TypeError")]
       ELSE reqs' = [reqs EXCEPT ![r] =
                       Step("register", "count", caller, id, events[id].capacity, EmptyBody)]

\* POST /api/events/:id/register, up to the await of Event.findByPk
RegFind(r, caller, id) ==
    /\ Free(r)
    /\ UNCHANGED <<events, users, regs, listRes>>
    /\ IF ~Authenticated(caller)
       THEN reqs' = [reqs EXCEPT ![r] = Done("register", id, 401, "auth")]
       ELSE IF id \notin DOMAIN events
       THEN reqs' = [reqs EXCEPT ![r] = Done("register", id, 404, "Event not found")]
       ELSE reqs' = [reqs EXCEPT ![r] =
                       Step("register", "count", caller, id, events[id].capacity, EmptyBody)]

\* register: Registration.count resolves and the gate is evaluated
RegCount(r) ==
    /\ reqs[r].op = "register" /\ reqs[r].pc = "count"
    /\ UNCHANGED <<events, users, regs, listRes>>
    /\ LET q == reqs[r]
           registrationCount == ConfirmedCount(regs, q.id)
       IN IF IsFull(registrationCount, q.capacity)
          THEN reqs' = [reqs EXCEPT ![r] = Done("register", q.id, 400, "Event is full")]
          ELSE reqs' = [reqs EXCEPT ![r] =
                          Step("register", "create", q.user, q.id, 0, EmptyBody)]

\* Registration.create({ UserId: req.user.id, EventId: event.id })
NewRegistration(userId, eventId) ==
    [id |-> FreshRegId, status |-> DefaultStatus, UserId |-> userId, EventId |-> eventId]

\* register: Registration.create resolves or rejects
RegCreate(r) ==
    /\ reqs[r].op = "register" /\ reqs[r].pc = "create"
    /\ UNCHANGED <<events, users, listRes>>
    /\ LET q == reqs[r]
       IN IF ForeignKeysHold(q.user, q.id)
          THEN /\ Cardinality(regs) < MaxRegs
               /\ regs' = regs \cup {NewRegistration(q.user, q.id)}
               /\ reqs' = [reqs EXCEPT ![r] = Done("register", q.id, 201, "")]
          ELSE /\ UNCHANGED regs
               /\ reqs' = [reqs EXCEPT ![r] =
                             Done("register", q.id, 400, "foreign key")]

\* the middleware chain of PUT /api/events/:id
UpdateAllowed(caller) == Authenticated(caller)

\* PUT /api/events/:id, up to the await of Event.findByPk
UpdFind(r, caller, id, body) ==
    /\ Free(r)
    /\ UNCHANGED <<events, users, regs, listRes>>
    /\ IF ~UpdateAllowed(caller)
       THEN reqs' = [reqs EXCEPT ![r] = Done("update", id, 401, "auth")]
       ELSE IF id \notin DOMAIN events
       THEN reqs' = [reqs EXCEPT ![r] = Done("update", id, 404, "Event not found")]
       ELSE reqs' = [reqs EXCEPT ![r] = Step("update", "save", NoUser, id, 0, body)]

\* the row after event.update(body): only the fields the body carries change
Updated(row, b) ==
    [capacity |-> IF Has(b, "capacity") THEN b.capacity ELSE row.capacity,
     date |-> IF Has(b, "date") THEN b.date ELSE row.date]

\* update: event.update(req.body) validates and then writes WHERE id = :id
UpdSave(r) ==
    /\ reqs[r].op = "update" /\ reqs[r].pc = "save"
    /\ UNCHANGED <<users, regs, listRes>>
    /\ LET q == reqs[r]
       IN IF ~CapacityValid(q.body)
          THEN /\ UNCHANGED events
               /\ reqs' = [reqs EXCEPT ![r] = Done("update", q.id, 400, "validation")]
          ELSE /\ events' = [e \in DOMAIN events |->
                               IF e = q.id THEN Updated(events[e], q.body) ELSE events[e]]
               /\ reqs' = [reqs EXCEPT ![r] = Done("update", q.id, 200, "")]

\* a chain without isAdmin
DeleteAllowedAnyUser(caller) == Authenticated(caller)

\* the middleware chain of DELETE /api/events/:id: [auth, isAdmin]
DeleteAllowed(caller) == Authenticated(caller) /\ IsAdmin(caller)

\* DELETE /api/events/:id, up to the await of Event.findByPk
DelFind(r, caller, id) ==
    /\ Free(r)
    /\ UNCHANGED <<events, users, regs, listRes>>
    /\ IF ~DeleteAllowed(caller)
       THEN reqs' = [reqs EXCEPT ![r] =
                       Done("delete", id, IF Authenticated(caller) THEN 403 ELSE 401, "auth")]
       ELSE IF id \notin DOMAIN events
       THEN reqs' = [reqs EXCEPT ![r] = Done("delete", id, 404, "Event not found")]
       ELSE reqs' = [reqs EXCEPT ![r] = Step("delete", "destroy", NoUser, id, 0, EmptyBody)]

\* delete: event.destroy() removes the row and, by the foreign key, its registrations
DelDestroy(r) ==
    /\ reqs[r].op = "delete" /\ reqs[r].pc = "destroy"
    /\ UNCHANGED <<users, listRes>>
    /\ LET q == reqs[r]
       IN /\ events' = [e \in DOMAIN events \ {q.id} |-> events[e]]
          /\ regs' = CascadeEvent(regs, q.id)
          /\ reqs' = [reqs EXCEPT ![r] = Done("delete", q.id, 204, "")]

\* ------------------------------------------------------------------ listing
\* A query-string value is a string of decimal digits; a defaulted parameter is
\* a number.
Num(n) == [number |-> n]
Str(ds) == [string |-> ds]

DefaultPage == 1
DefaultLimit == 10
DefaultSort == "date"

RECURSIVE Decimal(_)
Decimal(ds) ==
    IF Len(ds) = 0 THEN 0 ELSE 10 * Decimal(SubSeq(ds, 1, Len(ds) - 1)) + ds[Len(ds)]

\* parseInt(v)
ParseInt(v) == IF Has(v, "number") THEN v.number ELSE Decimal(v.string)

\* the numeric value an arithmetic operator gives v
ToNumber(v) == IF Has(v, "number") THEN v.number ELSE Decimal(v.string)

\* Math.ceil(count / limit), limit >= 1
CeilDiv(count, limit) == (count + limit - 1) \div limit

Columns == {"date", "capacity"}

Column(e, col) ==
    IF col = "date" THEN events[e].date ELSE events[e].capacity

\* ORDER BY col ASC: every order of the rows that ascends in col
SortedOrders(col) ==
    LET n == Cardinality(DOMAIN events)
    IN {p \in [1..n -> DOMAIN events] :
          /\ \A i, j \in 1..n : i # j => p[i] # p[j]
          /\ \A i, j \in 1..n : i < j => Column(p[i], col) <= Column(p[j], col)}

\* LIMIT limit OFFSET offset
Slice(order, offset, limit) ==
    LET last == IF offset + limit < Len(order) THEN offset + limit ELSE Len(order)
    IN [i \in 1..(IF last > offset THEN last - offset ELSE 0) |-> order[offset + i]]

Row(e) == [id |-> e, capacity |-> events[e].capacity, date |-> events[e].date]

QueryNumbers == {<<d>> : d \in 0..MaxPage}
QueryLimits == {<<d>> : d \in 1..MaxPage} \cup {<<1, 0>>}
QuerySorts == Columns \cup {"bogus"}

Queries ==
    {[page |-> p, limit |-> l, sort |-> c] : p \in QueryNumbers, l \in QueryLimits, c \in QuerySorts}
    \cup {[page |-> p, limit |-> l] : p \in QueryNumbers, l \in QueryLimits}
    \cup {[page |-> p, sort |-> c] : p \in QueryNumbers, c \in QuerySorts}
    \cup {[limit |-> l, sort |-> c] : l \in QueryLimits, c \in QuerySorts}
    \cup {[page |-> p] : p \in QueryNumbers}
    \cup {[limit |-> l] : l \in QueryLimits}
    \cup {[sort |-> c] : c \in QuerySorts}
    \cup {EmptyBody}

\* an offset that skips the first page
OffsetPageTimesLimit(page, limit) == ToNumber(page) * ToNumber(limit)

\* offset: (page - 1) * limit
Offset(page, limit) == (ToNumber(page) - 1) * ToNumber(limit)

ListError(q) ==
    [query |-> q, code |-> 400, events |-> <<>>, totalPages |-> 0, currentPage |-> Num(0)]

\* GET /api/events
List(q) ==
    /\ UNCHANGED <<events, users, regs, reqs>>
    /\ LET page == IF Has(q, "page") THEN Str(q.page) ELSE Num(DefaultPage)
           limit == IF Has(q, "limit") THEN Str(q.limit) ELSE Num(DefaultLimit)
           sort == IF Has(q, "sort") THEN q.sort ELSE DefaultSort
           offset == Offset(page, limit)
       IN IF sort \notin Columns \/ offset < 0
          THEN listRes' = ListError(q)
          ELSE \E order \in SortedOrders(sort) :
                 listRes' =
                   [query |-> q, code |-> 200,
                    events |-> [i \in DOMAIN Slice(order, offset, ParseInt(limit)) |->
                                  Row(Slice(order, offset, ParseInt(limit))[i])],
                    totalPages |-> CeilDiv(Cardinality(DOMAIN events), ToNumber(limit)),
                    currentPage |-> page]

\* the tables a list query may read
InitList ==
    /\ \E D \in SUBSET (1..MaxListed) :
         events \in [D -> [capacity : 1..MaxCap, date : Dates]]
    /\ users = UserIds
    /\ regs = {}
    /\ reqs = [r \in RaceReqs |-> Idle]
    /\ listRes = NoList

\* one query against each table
NextList == listRes = NoList /\ \E q \in Queries : List(q)

SpecList == InitList /\ [][NextList]_vars

\* a Users row is deleted: the foreign key removes the user's registrations
DeleteUser(u) ==
    /\ u \in users
    /\ users' = users \ {u}
    /\ regs' = CascadeUser(regs, u)
    /\ UNCHANGED <<events, reqs, listRes>>

\* one step of the request in slot r, on event identifiers E
Request(r, E) ==
    \/ \E caller \in Callers, id \in E, body \in Bodies : Create(r, caller, id, body)
    \/ \E caller \in Callers, id \in E : RegFind(r, caller, id)
    \/ RegCount(r)
    \/ RegCreate(r)
    \/ \E caller \in Callers, id \in E, body \in Bodies : UpdFind(r, caller, id, body)
    \/ UpdSave(r)
    \/ \E caller \in Callers, id \in E : DelFind(r, caller, id)
    \/ DelDestroy(r)

\* requests racing on one event, and users being removed
Next ==
    \/ \E r \in RaceReqs : Request(r, RaceEvents)
    \/ \E u \in UserIds : DeleteUser(u)

Spec == Init /\ [][Next]_vars

\* one request at a time, over every event identifier
NextSeq == Request(1, EventIds)

SpecSeq == Init /\ [][NextSeq]_vars

\* ------------------------------------------------------------------ properties
\* the rows of event e with status CONFIRMED, counted from the table
Confirmed(rs, e) == {g \in rs : g.EventId = e /\ g.status = "CONFIRMED"}

RowsOf(rs, e) == {g \in rs : g.EventId = e}

\* slot r answers in this step
Answers(r) == reqs[r].pc # "done" /\ reqs'[r].pc = "done"

\* slot r takes up a request for operation op in this step
Begins(r, op) == Free(r) /\ reqs'[r] # reqs[r] /\ reqs'[r].op = op

BadCapacityBodies == {b \in Bodies : Has(b, "capacity") /\ b.capacity < 1}

C2_OneRegistrationWins ==
    \A e \in DOMAIN events :
      events[e].capacity = 1
      => Cardinality({r \in RaceReqs :
                        /\ reqs[r].op = "register" /\ reqs[r].id = e
                        /\ reqs[r].pc = "create" \/ reqs[r].code = 201}) <= 1

\* C3: when the gate of a register request runs for an event of capacity N
\* that has N or more CONFIRMED registrations, the request is answered
\* 400 'Event is full' and no row is created: the tables are unchanged.
C3_FullEventRejects ==
    [][\A r \in RaceReqs :
         (/\ reqs[r].op = "register" /\ reqs[r].pc = "count"
          /\ reqs'[r] # reqs[r]
          /\ reqs[r].id \in DOMAIN events
          /\ events[reqs[r].id].capacity = reqs[r].capacity
          /\ Cardinality(Confirmed(regs, reqs[r].id)) >= events[reqs[r].id].capacity)
         => (/\ reqs'[r] = Done("register", reqs[r].id, 400, "Event is full")
             /\ regs' = regs
             /\ events' = events)]_vars

C3_Witness ==
    \E r \in RaceReqs :
      /\ reqs[r].op = "register" /\ reqs[r].pc = "done"
      /\ reqs[r].code = 400 /\ reqs[r].error = "Event is full"
      /\ reqs[r].id \in DOMAIN events
      /\ Cardinality(Confirmed(regs, reqs[r].id)) = events[reqs[r].id].capacity

\* C4: a register request for an identifier that matches no event is answered
\* 404 at once, without count or insert, and changes neither table.
C4_MissingEventNotFound ==
    [][\A r \in RaceReqs :
         Begins(r, "register")
         => \A caller \in UserIds, id \in EventIds :
              (RegFind(r, caller, id) /\ id \notin DOMAIN events)
              => (/\ reqs'[r] = Done("register", id, 404, "Event not found")
                  /\ events' = events
                  /\ regs' = regs)]_vars

C4_Witness ==
    /\ reqs[1].op = "register" /\ reqs[1].pc = "done" /\ reqs[1].code = 404
    /\ reqs[1].id \notin DOMAIN events
    /\ DOMAIN events # {}

\* C5: no registration row refers to an event or a user that no longer exists.
C5_NoDanglingRegistration ==
    \A g \in regs : g.EventId \in DOMAIN events /\ g.UserId \in users

C5_Witness ==
    \E r1, r2 \in RaceReqs :
      /\ reqs[r1].op = "delete" /\ reqs[r1].pc = "done" /\ reqs[r1].code = 204
      /\ reqs[r2].op = "register" /\ reqs[r2].pc = "done"
      /\ reqs[r2].code = 400 /\ reqs[r2].error = "foreign key"
      /\ reqs[r1].id = reqs[r2].id

Written(ds) == IF Len(ds) = 1 THEN ds[1] ELSE 10 * ds[1] + ds[2]

\* a list response res for the table evs: page P of L rows in ascending col
ListOk(res, evs) ==
    LET q == res.query
        P == IF Has(q, "page") THEN Written(q.page) ELSE 1
        L == IF Has(q, "limit") THEN Written(q.limit) ELSE 10
        col == IF Has(q, "sort") THEN q.sort ELSE "date"
        n == Cardinality(DOMAIN evs)
        key(e) == IF col = "date" THEN evs[e].date ELSE evs[e].capacity
        first == (P - 1) * L + 1
        last == IF P * L < n THEN P * L ELSE n
        len == IF last >= first THEN last - first + 1 ELSE 0
    IN (P >= 1 /\ col \in {"date", "capacity"})
       => /\ res.code = 200
          /\ Len(res.events) = len
          /\ \A i \in 1..len :
               LET row == res.events[i]
               IN /\ row.id \in DOMAIN evs
                  /\ row.capacity = evs[row.id].capacity /\ row.date = evs[row.id].date
                  /\ Cardinality({e \in DOMAIN evs : key(e) < key(row.id)}) <= first + i - 2
                  /\ Cardinality({e \in DOMAIN evs : key(e) <= key(row.id)}) >= first + i - 1
          /\ \A i, j \in 1..len : i # j => res.events[i].id # res.events[j].id
          /\ res.totalPages * L >= n /\ (res.totalPages - 1) * L < n
          /\ (IF Has(res.currentPage, "number") THEN res.currentPage.number
              ELSE Written(res.currentPage.string)) = P

C8_CapacityAtLeastOne ==
    [][/\ \A e \in DOMAIN events' : events'[e].capacity >= 1
       /\ \A r \in RaceReqs :
            Begins(r, "create")
            => \A caller \in UserIds, id \in EventIds, body \in BadCapacityBodies :
                 Create(r, caller, id, body)
                 => (reqs'[r].pc = "done" /\ reqs'[r].code = 400 /\ events' = events)
       /\ \A r \in RaceReqs :
            (/\ reqs[r].op = "update" /\ reqs[r].pc = "save" /\ Answers(r)
             /\ Has(reqs[r].body, "capacity") /\ reqs[r].body.capacity < 1)
            => (reqs'[r].code = 400 /\ events' = events)]_vars

C8_Witness ==
    /\ reqs[1].op = "update" /\ reqs[1].pc = "done" /\ reqs[1].code = 400
    /\ reqs[1].error = "validation"
    /\ reqs[1].id \in DOMAIN events

\* C9: a delete request from a caller who is not an authenticated admin is
\* turned away and leaves events and registrations unchanged; an event leaves
\* the table only in the destroy step of a delete request that was let through;
\* an update request from any authenticated caller, admin or not, is let
\* through to the lookup.
C9_DeleteAdminOnly ==
    [][/\ \A r \in RaceReqs :
            Begins(r, "delete")
            => \A caller \in Callers, id \in EventIds :
                 (DelFind(r, caller, id) /\ ~(caller \in UserIds /\ Role(caller) = "ADMIN"))
                 => (/\ reqs'[r].pc = "done" /\ reqs'[r].code \in {401, 403}
                     /\ events' = events /\ regs' = regs)
       /\ (\E e \in DOMAIN events : e \notin DOMAIN events')
            => \E r \in RaceReqs :
                 reqs[r].op = "delete" /\ reqs[r].pc = "destroy" /\ Answers(r)
       /\ \A r \in RaceReqs :
            (Begins(r, "update") /\ reqs'[r].pc # "save")
            => \A caller \in UserIds, id \in DOMAIN events, body \in Bodies :
                 ~UpdFind(r, caller, id, body)]_vars

C9_Witness ==
    /\ reqs[1].op = "delete" /\ reqs[1].pc = "done" /\ reqs[1].code = 403
    /\ reqs[1].id \in DOMAIN events

\* C10: the gate reads CONFIRMED rows only: a register request whose event has
\* fewer CONFIRMED rows than the capacity it read passes the gate however many
\* PENDING rows the event has, so the rows of an event can outnumber its
\* capacity.
C10_PendingNotCounted ==
    [][\A r \in RaceReqs :
         (/\ reqs[r].op = "register" /\ reqs[r].pc = "count"
          /\ reqs'[r] # reqs[r]
          /\ Cardinality(Confirmed(regs, reqs[r].id)) < reqs[r].capacity)
         => (reqs'[r].pc = "create" /\ reqs'[r].code = 0)]_vars

C10_Witness ==
    \E e \in DOMAIN events :
      /\ Cardinality(RowsOf(regs, e)) > events[e].capacity
      /\ \E g, h \in RowsOf(regs, e) :
           g # h /\ g.UserId = h.UserId /\ g.status = "PENDING" /\ h.status = "PENDING"
      /\ reqs[1].op = "register" /\ reqs[1].code = 201 /\ reqs[1].id = e
====
